---- MODULE Spec2Model ----
(***************************************************************************)
(* Model of backend/server.py: the Snowflake gateway (SnowflakeManager and *)
(* the HTTP handlers that use the process-wide snowflake_manager) and the  *)
(* synthetic data generator generate_sample_data.                          *)
(*                                                                         *)
(* Records keep the key columns of the generated rows (the ids and the     *)
(* foreign keys); the Faker/random attribute columns carry no control flow *)
(* and are left out.  uuid.uuid4() is modelled as a counter: the k-th uuid *)
(* issued during the n-th run of the generator is <<n, k>>, so any two     *)
(* uuids differ.  Strings built with f"..." are sequences of their parts.  *)
(***************************************************************************)
EXTENDS Integers, Sequences, FiniteSets, TLC

VARIABLES
    connection,         \* snowflake_manager.connection: None or a session handle
    connection_params,  \* snowflake_manager.connection_params: None or the credentials
    sessions,           \* driver side: the sessions opened so far, by handle
    request,            \* the request (or lifecycle event) handled last
    response,           \* the answer given to it
    calls,              \* the driver calls made while handling it, in order
    generated,          \* whether generate_sample_data ran while handling it
    phase,              \* "serving" until the shutdown handler has run
    gen_args,           \* arguments of a direct generate_sample_data call
    gen_result,         \* what that call returned or raised
    warehouse,          \* warehouse side: the rows each table holds
    batches             \* how many times generate_sample_data has run

vars == <<connection, connection_params, sessions, request, response, calls,
          generated, phase, gen_args, gen_result, warehouse, batches>>

gateway_vars == <<connection, connection_params, sessions, request, response,
                  calls, generated, phase>>

\* the contents of the warehouse's tables, followed under SpecLoad only
warehouse_vars == <<warehouse, batches>>

-----------------------------------------------------------------------------
(* Bounds of the model *)

MaxCustomers == 2
MaxMerchants == 2
MaxTransactions == 2
MaxSessions == 2
MaxQueryLen == 2
MaxBatches == 2

None == "None"

-----------------------------------------------------------------------------
(* generate_sample_data *)

\* uuid.uuid4(): the k-th uuid issued during the run number `run` of the generator
uuid4(run, k) == <<run, k>>

\* len(range(n)): range(n) is empty for n <= 0
RangeLen(n) == IF n > 0 THEN n ELSE 0

\* random.randint(1, 4) in place of random.randint(1, 3)
NumAccountsRange_UpTo4 == 1..4

\* random.randint(1, 3): the values it can return
NumAccountsRange == 1..3

\* the customers loop
GenCustomers(num_customers, run, base) ==
    [i \in 1..RangeLen(num_customers) |-> [customer_id |-> uuid4(run, base + i)]]

\* the merchants loop
GenMerchants(num_merchants, run, base) ==
    [j \in 1..RangeLen(num_merchants) |-> [merchant_id |-> uuid4(run, base + j)]]

\* the inner loop, storing the account's own id in 'customer_id'
CustomerAccounts_OwnId(customer, num_accounts, run, base) ==
    [k \in 1..RangeLen(num_accounts) |->
        [account_id |-> uuid4(run, base + k), customer_id |-> uuid4(run, base + k)]]

\* the accounts of one customer: the inner loop over range(num_accounts)
CustomerAccounts(customer, num_accounts, run, base) ==
    [k \in 1..RangeLen(num_accounts) |->
        [account_id |-> uuid4(run, base + k), customer_id |-> customer.customer_id]]

\* the accounts loop over customers i.., na[i] being the randint drawn for customer i
RECURSIVE GenAccounts(_, _, _, _, _)
GenAccounts(customers, na, i, run, base) ==
    IF i > Len(customers) THEN <<>>
    ELSE CustomerAccounts(customers[i], na[i], run, base)
            \o GenAccounts(customers, na, i + 1, run, base + RangeLen(na[i]))

\* [acc for acc in accounts if acc['customer_id'] == customer['customer_id']]
OwnAccounts(accounts, customer) ==
    SelectSeq(accounts, LAMBDA acc : acc.customer_id = customer.customer_id)

IndexError == "IndexError"

\* a Python call that raised exception e / that returned value v
Raise(e) == [raised |-> e]
Return(v) == [raised |-> None, value |-> v]

\* random.choice(seq) when the random source yields r: the element the draw
\* falls on, IndexError on an empty sequence
RandomChoice(seq, r) ==
    IF Len(seq) = 0 THEN Raise(IndexError)
    ELSE Return(seq[((r - 1) % Len(seq)) + 1])

\* random.choice(accounts): the choice made among all accounts
PickAccount_AnyAccount(accounts, customer, r) ==
    RandomChoice(accounts, r)

\* random.choice(customer_accounts) if customer_accounts else accounts[0]
PickAccount(accounts, customer, r) ==
    IF Len(OwnAccounts(accounts, customer)) > 0
    THEN RandomChoice(OwnAccounts(accounts, customer), r)
    ELSE IF Len(accounts) > 0 THEN Return(accounts[1]) ELSE Raise(IndexError)

\* one iteration of the transactions loop, without the transaction_id: the
\* three choices are made in the order customer, merchant, account
GenTransaction(customers, merchants, accounts, rc, rm, ra) ==
    LET customer == RandomChoice(customers, rc)
        merchant == RandomChoice(merchants, rm)
        account == PickAccount(accounts, customer.value, ra)
    IN IF customer.raised # None THEN customer
       ELSE IF merchant.raised # None THEN merchant
       ELSE IF account.raised # None THEN account
       ELSE Return([customer_id |-> customer.value.customer_id,
                    merchant_id |-> merchant.value.merchant_id,
                    account_id |-> account.value.account_id])

\* the transactions loop: the rows of all iterations, or the exception of the
\* first iteration that raised
GenTransactions(num_transactions, customers, merchants, accounts, run, base, rnd) ==
    LET pick == [i \in 1..RangeLen(num_transactions) |->
                    GenTransaction(customers, merchants, accounts,
                                   rnd.customer[i], rnd.merchant[i], rnd.account[i])]
    IN IF \E i \in 1..RangeLen(num_transactions) : pick[i].raised # None
       THEN Raise(IndexError)
       ELSE Return([i \in 1..RangeLen(num_transactions) |->
                      [transaction_id |-> uuid4(run, base + i),
                       customer_id |-> pick[i].value.customer_id,
                       merchant_id |-> pick[i].value.merchant_id,
                       account_id |-> pick[i].value.account_id]])

\* generate_sample_data(num_customers, num_merchants, num_transactions) run on
\* the random source rnd, as run number `run` of the generator in the process
generate_sample_data(num_customers, num_merchants, num_transactions, run, rnd) ==
    LET customers == GenCustomers(num_customers, run, 0)
        merchants == GenMerchants(num_merchants, run, Len(customers))
        accounts == GenAccounts(customers, rnd.num_accounts, 1, run,
                                Len(customers) + Len(merchants))
        transactions == GenTransactions(num_transactions, customers, merchants,
                            accounts, run,
                            Len(customers) + Len(merchants) + Len(accounts), rnd)
    IN IF transactions.raised # None
       THEN transactions
       ELSE Return([customers |-> customers,
                    merchants |-> merchants,
                    accounts |-> accounts,
                    transactions |-> transactions.value])

\* the draws that reach every element of a sequence of n elements (one draw,
\* unused, when the sequence is empty and the choice raises)
Draws(n) == 1..(IF n > 1 THEN n ELSE 1)

\* the most accounts one customer can get
MaxOwnAccounts == CHOOSE n \in NumAccountsRange : \A k \in NumAccountsRange : k <= n

\* what the random source can yield during one call: a randint per customer
\* and three choice draws per transaction
RandomSource(num_customers, num_merchants, num_transactions) ==
    [num_accounts : [1..RangeLen(num_customers) -> NumAccountsRange],
     customer : [1..RangeLen(num_transactions) -> Draws(RangeLen(num_customers))],
     merchant : [1..RangeLen(num_transactions) -> Draws(RangeLen(num_merchants))],
     account : [1..RangeLen(num_transactions) -> Draws(MaxOwnAccounts)]]

-----------------------------------------------------------------------------
(* SnowflakeManager and the driver behind it *)

\* self.connection = None; a session handle is the session's position in
\* the driver's table of sessions
NoConnection == 0

\* self.connection_params = None
NoParams == [is_none |-> TRUE]

\* SnowflakeConnection request bodies: the credentials of test_04 (all empty)
\* and credentials naming either of two databases
Credentials ==
    {[account |-> "", database |-> "FINANCIAL_DW"]}
        \cup [account : {"acme"}, database : {"FINANCIAL_DW", "SALES_DW"}]

\* the driver never opens a session for an empty account
DriverCanAccept(params) == params.account # ""

\* HTTPException(status_code=400, detail=...)
HTTPException(status_code, detail) ==
    [raised |-> "HTTPException", status_code |-> status_code, detail |-> detail]

\* str(e) of an exception: "<status_code>: <detail>" for an HTTPException,
\* the message for any other
Str(e) ==
    IF e.raised = "HTTPException"
    THEN <<IF e.status_code = 400 THEN "400: " ELSE "500: ">> \o e.detail
    ELSE <<e.raised>>

NoActiveConnection == "No active Snowflake connection"
DriverMessage == "driver error"

\* the guard left out: the gateway never sees itself as disconnected
NotConnected_Never(conn) == FALSE

\* not self.connection
NotConnected(conn) == conn = NoConnection

\* connect without line 127: the credentials are not stored
connect_ParamsNotStored(conn, sess, params, accepted) ==
    IF accepted
    THEN [connection_params |-> NoParams,
          connection |-> Len(sess) + 1,
          sessions |-> Append(sess, [database |-> params.database, open |-> TRUE]),
          outcome |-> Return(TRUE)]
    ELSE [connection_params |-> NoParams,
          connection |-> conn,
          sessions |-> sess,
          outcome |-> HTTPException(400,
                          <<"Snowflake connection failed: ", DriverMessage>>)]

\* connect that keeps the session it already holds and drops the new one
connect_KeepsFirstSession(conn, sess, params, accepted) ==
    IF accepted
    THEN [connection_params |-> params,
          connection |-> IF conn = NoConnection THEN Len(sess) + 1 ELSE conn,
          sessions |-> Append(sess, [database |-> params.database, open |-> TRUE]),
          outcome |-> Return(TRUE)]
    ELSE [connection_params |-> params,
          connection |-> conn,
          sessions |-> sess,
          outcome |-> HTTPException(400,
                          <<"Snowflake connection failed: ", DriverMessage>>)]

\* connect that resets self.connection to None when the driver rejects
connect_ResetsOnFailure(conn, sess, params, accepted) ==
    IF accepted
    THEN [connection_params |-> params,
          connection |-> Len(sess) + 1,
          sessions |-> Append(sess, [database |-> params.database, open |-> TRUE]),
          outcome |-> Return(TRUE)]
    ELSE [connection_params |-> params,
          connection |-> NoConnection,
          sessions |-> sess,
          outcome |-> HTTPException(400,
                          <<"Snowflake connection failed: ", DriverMessage>>)]

\* SnowflakeManager.connect: the new values of (connection_params, connection,
\* sessions) and what the call returns or raises; accepted is the driver's answer
connect(conn, sess, params, accepted) ==
    IF accepted
    THEN [connection_params |-> params,
          connection |-> Len(sess) + 1,
          sessions |-> Append(sess, [database |-> params.database, open |-> TRUE]),
          outcome |-> Return(TRUE)]
    ELSE [connection_params |-> params,
          connection |-> conn,
          sessions |-> sess,
          outcome |-> HTTPException(400,
                          <<"Snowflake connection failed: ", DriverMessage>>)]

\* SnowflakeManager.execute_query: the outcome and the driver calls made;
\* driver_raises says whether cursor.execute raises
execute_query(conn, query, fetch_results, driver_raises) ==
    IF NotConnected(conn)
    THEN [outcome |-> HTTPException(400, <<NoActiveConnection>>), calls |-> <<>>]
    ELSE [outcome |->
              IF driver_raises
              THEN HTTPException(400, <<"Query failed: ", DriverMessage>>)
              ELSE IF fetch_results
                   THEN Return([columns |-> "columns", data |-> "rows"])
                   ELSE Return([message |-> "Query executed successfully"]),
          calls |-> <<[fn |-> "execute", session |-> conn, query |-> query,
                       raised |-> driver_raises]>>]

\* load_dataframe that calls write_pandas a second time when it raised
load_dataframe_Retry(conn, df, table_name, if_exists, driver_raises) ==
    IF conn = NoConnection
    THEN [outcome |-> HTTPException(400, <<NoActiveConnection>>), calls |-> <<>>]
    ELSE [outcome |->
              IF driver_raises
              THEN HTTPException(400, <<"Data load failed: ", DriverMessage>>)
              ELSE Return([success |-> TRUE, rows |-> Len(df)]),
          calls |->
              LET call == [fn |-> "write_pandas", session |-> conn, df |-> df,
                           table_name |-> table_name, if_exists |-> if_exists,
                           raised |-> driver_raises]
              IN IF driver_raises THEN <<call, call>> ELSE <<call>>]

\* SnowflakeManager.load_dataframe: the outcome and the driver calls made;
\* driver_raises says whether write_pandas raises
load_dataframe(conn, df, table_name, if_exists, driver_raises) ==
    IF NotConnected(conn)
    THEN [outcome |-> HTTPException(400, <<NoActiveConnection>>), calls |-> <<>>]
    ELSE [outcome |->
              IF driver_raises
              THEN HTTPException(400, <<"Data load failed: ", DriverMessage>>)
              ELSE Return([success |-> TRUE, rows |-> Len(df)]),
          calls |-> <<[fn |-> "write_pandas", session |-> conn, df |-> df,
                       table_name |-> table_name, if_exists |-> if_exists,
                       raised |-> driver_raises]>>]

-----------------------------------------------------------------------------
(* The HTTP handlers *)

TableNames == {"customers", "merchants", "accounts", "transactions"}

\* a handler's answer: the JSON body with 200, or the HTTPException raised;
\* any other exception leaves the handler as a 500
Respond(outcome) ==
    IF outcome.raised = None
    THEN [status_code |-> 200, detail |-> <<>>, body |-> outcome.value]
    ELSE IF outcome.raised = "HTTPException"
    THEN [status_code |-> outcome.status_code, detail |-> outcome.detail,
          body |-> None]
    ELSE [status_code |-> 500, detail |-> <<outcome.raised>>, body |-> None]

\* POST /snowflake/connect
connect_snowflake(params, accepted) ==
    LET r == connect(connection, sessions, params, accepted)
    IN /\ connection_params' = r.connection_params
       /\ connection' = r.connection
       /\ sessions' = r.sessions
       /\ calls' = <<[fn |-> "connect", params |-> params, raised |-> ~accepted]>>
       /\ response' =
             IF r.outcome.raised = None
             THEN Respond(Return([message |-> "Successfully connected to Snowflake",
                                  status |-> "connected"]))
             ELSE Respond(HTTPException(400, Str(r.outcome)))
       /\ generated' = FALSE

\* snowflake_manager.connection_params.database
ParamsDatabase(params) ==
    IF params = NoParams THEN Raise("AttributeError") ELSE Return(params.database)

\* GET /snowflake/status
snowflake_status ==
    /\ response' =
          IF ~NotConnected(connection)
          THEN IF ParamsDatabase(connection_params).raised # None
               THEN Respond(ParamsDatabase(connection_params))
               ELSE Respond(Return([status |-> "connected",
                        database |-> ParamsDatabase(connection_params).value]))
          ELSE Respond(Return([status |-> "disconnected"]))
    /\ calls' = <<>>
    /\ generated' = FALSE
    /\ UNCHANGED <<connection, connection_params, sessions>>

\* the statements of setup_queries, in order
setup_queries ==
    << <<"CREATE DATABASE IF NOT EXISTS FINANCIAL_DW">>,
       <<"USE DATABASE FINANCIAL_DW">>,
       <<"CREATE SCHEMA IF NOT EXISTS PUBLIC">>,
       <<"USE SCHEMA PUBLIC">>,
       <<"CREATE OR REPLACE TABLE customers">>,
       <<"CREATE OR REPLACE TABLE merchants">>,
       <<"CREATE OR REPLACE TABLE accounts">>,
       <<"CREATE OR REPLACE TABLE transactions">>,
       <<"CREATE OR REPLACE VIEW daily_transaction_summary">>,
       <<"CREATE OR REPLACE VIEW customer_spending_summary">> >>

\* the statements of get_dashboard_data, in order
dashboard_queries ==
    << <<"SELECT COUNT(*) as count FROM transactions">>,
       <<"SELECT SUM(amount) as total FROM transactions">>,
       <<"SELECT AVG(amount) as avg FROM transactions">>,
       <<"SELECT daily trends">>,
       <<"SELECT category breakdown">>,
       <<"SELECT top customers">> >>

\* the loop without the raise: the statements after a rejected one are sent too
RECURSIVE RunQueries_KeepsGoing(_, _, _, _, _)
RunQueries_KeepsGoing(conn, queries, fetch_results, fail_at, i) ==
    IF i > Len(queries) THEN [outcome |-> Return("done"), calls |-> <<>>]
    ELSE LET r == execute_query(conn, queries[i], fetch_results, i = fail_at)
             rest == RunQueries_KeepsGoing(conn, queries, fetch_results, fail_at, i + 1)
         IN [outcome |-> IF r.outcome.raised # None THEN r.outcome ELSE rest.outcome,
             calls |-> r.calls \o rest.calls]

\* a run of execute_query calls, one per statement from position i on,
\* stopped by the first one that raises; the driver raises on call fail_at
RECURSIVE RunQueries(_, _, _, _, _)
RunQueries(conn, queries, fetch_results, fail_at, i) ==
    IF i > Len(queries) THEN [outcome |-> Return("done"), calls |-> <<>>]
    ELSE LET r == execute_query(conn, queries[i], fetch_results, i = fail_at)
             rest == RunQueries(conn, queries, fetch_results, fail_at, i + 1)
         IN IF r.outcome.raised # None THEN r
            ELSE [outcome |-> rest.outcome, calls |-> r.calls \o rest.calls]

\* POST /snowflake/setup
setup_database(fail_at) ==
    IF NotConnected(connection)
    THEN /\ response' = Respond(HTTPException(400, <<NoActiveConnection>>))
         /\ calls' = <<>>
         /\ generated' = FALSE
    /\ UNCHANGED <<connection, connection_params, sessions>>
    ELSE LET r == RunQueries(connection, setup_queries, FALSE, fail_at, 1)
         IN /\ response' =
                  IF r.outcome.raised = None
                  THEN Respond(Return([message |-> "Database schema created successfully",
                                       tables_created |-> 4, views_created |-> 2]))
                  ELSE Respond(HTTPException(400,
                           <<"Schema creation failed: ">> \o Str(r.outcome)))
            /\ calls' = r.calls
            /\ generated' = FALSE
            /\ UNCHANGED <<connection, connection_params, sessions>>

\* GET /analytics/dashboard
get_dashboard_data(fail_at) ==
    IF NotConnected(connection)
    THEN /\ response' = Respond(HTTPException(400, <<NoActiveConnection>>))
         /\ calls' = <<>>
         /\ generated' = FALSE
    /\ UNCHANGED <<connection, connection_params, sessions>>
    ELSE LET r == RunQueries(connection, dashboard_queries, TRUE, fail_at, 1)
         IN /\ response' =
                  IF r.outcome.raised = None
                  THEN Respond(Return([summary |-> "summary"]))
                  ELSE Respond(HTTPException(400,
                           <<"Dashboard data fetch failed: ">> \o Str(r.outcome)))
            /\ calls' = r.calls
            /\ generated' = FALSE
    /\ UNCHANGED <<connection, connection_params, sessions>>

\* the pieces a query text is made of: white space, a statement, and two
\* spellings of a LIMIT clause
QueryTokens == {" ", "SELECT 1", "limit 5"}

\* str.upper() of a piece
Upper(token) == IF token = "limit 5" THEN "LIMIT 5" ELSE token

\* str.strip(): leading and trailing white space removed
RECURSIVE LStrip(_)
LStrip(q) == IF Len(q) > 0 /\ Head(q) = " " THEN LStrip(Tail(q)) ELSE q

RECURSIVE RStrip(_)
RStrip(q) ==
    IF Len(q) > 0 /\ q[Len(q)] = " " THEN RStrip(SubSeq(q, 1, Len(q) - 1)) ELSE q

Strip(q) == RStrip(LStrip(q))

\* query.upper().count('LIMIT')
CountLIMIT(q) == Cardinality({i \in 1..Len(q) : Upper(q[i]) = "LIMIT 5"})

\* Optional[int]: None, or the number
NoLimit == <<>>
Limits == {NoLimit, <<0>>, <<10>>}

\* truth value of request.limit
Truthy(limit) == limit # NoLimit /\ limit[1] # 0

\* the endpoint without the LIMIT count: the clause is appended to a query
\* that already has one
LimitedQuery_AlwaysAppends(sql_query, limit) ==
    IF Truthy(limit)
    THEN Strip(sql_query) \o <<" LIMIT ", limit[1]>>
    ELSE Strip(sql_query)

\* the query the endpoint hands to the gateway
LimitedQuery(sql_query, limit) ==
    IF Truthy(limit) /\ CountLIMIT(Strip(sql_query)) = 0
    THEN Strip(sql_query) \o <<" LIMIT ", limit[1]>>
    ELSE Strip(sql_query)

\* POST /query/execute
execute_query_endpoint(sql_query, limit, driver_raises) ==
    IF NotConnected(connection)
    THEN /\ response' = Respond(HTTPException(400, <<NoActiveConnection>>))
         /\ calls' = <<>>
         /\ generated' = FALSE
    /\ UNCHANGED <<connection, connection_params, sessions>>
    ELSE LET r == execute_query(connection, LimitedQuery(sql_query, limit), TRUE,
                                driver_raises)
         IN /\ response' =
                  IF r.outcome.raised = None THEN Respond(r.outcome)
                  ELSE Respond(HTTPException(400, Str(r.outcome)))
            /\ calls' = r.calls
            /\ generated' = FALSE
    /\ UNCHANGED <<connection, connection_params, sessions>>

\* the four load_dataframe calls of generate_data, in order
LoadOrder == <<"customers", "merchants", "accounts", "transactions">>

\* the loads from position i on, stopped by the first one that raises; the
\* driver raises on load fail_at
RECURSIVE RunLoads(_, _, _, _)
RunLoads(conn, sample_data, fail_at, i) ==
    IF i > Len(LoadOrder) THEN [outcome |-> Return("done"), calls |-> <<>>]
    ELSE LET r == load_dataframe(conn, sample_data[LoadOrder[i]], LoadOrder[i],
                                 "replace", i = fail_at)
             rest == RunLoads(conn, sample_data, fail_at, i + 1)
         IN IF r.outcome.raised # None THEN r
            ELSE [outcome |-> rest.outcome, calls |-> r.calls \o rest.calls]

\* POST /data/generate
generate_data(req, rnd, fail_at) ==
    IF NotConnected(connection)
    THEN /\ response' = Respond(HTTPException(400, <<NoActiveConnection>>))
         /\ calls' = <<>>
         /\ generated' = FALSE
         /\ UNCHANGED <<connection, connection_params, sessions>>
    ELSE LET sample_data == generate_sample_data(req.customers, req.merchants,
                                req.transactions, batches + 1, rnd)
             r == RunLoads(connection, sample_data.value, fail_at, 1)
         IN /\ generated' = TRUE
            /\ UNCHANGED <<connection, connection_params, sessions>>
            /\ IF sample_data.raised # None
               THEN /\ response' = Respond(HTTPException(400,
                                     <<"Data generation failed: ">> \o Str(sample_data)))
                    /\ calls' = <<>>
               ELSE /\ response' =
                          IF r.outcome.raised = None
                          THEN Respond(Return(
                                 [message |-> "Sample data generated and loaded successfully",
                                  data_counts |->
                                     [t \in TableNames |-> Len(sample_data.value[t])]]))
                          ELSE Respond(HTTPException(400,
                                  <<"Data generation failed: ">> \o Str(r.outcome)))
                    /\ calls' = r.calls

\* the shutdown handler: closes the session the gateway holds
shutdown_db_client ==
    /\ phase' = "stopped"
    /\ IF ~NotConnected(connection)
       THEN /\ sessions' = [sessions EXCEPT ![connection].open = FALSE]
            /\ calls' = <<[fn |-> "close", session |-> connection, raised |-> FALSE]>>
       ELSE /\ calls' = <<>>
            /\ UNCHANGED sessions
    /\ generated' = FALSE
    /\ UNCHANGED <<connection, connection_params>>

-----------------------------------------------------------------------------
(* The process: requests arrive in any order until shutdown.  The handlers   *)
(* are coroutines without an await inside, so each runs to its end before    *)
(* the next one starts.                                                      *)

NoRequest == [op |-> "none"]
NoResponse == [status_code |-> 0, detail |-> <<>>, body |-> None]

\* sql_query texts of up to MaxQueryLen pieces
Queries == UNION {[1..n -> QueryTokens] : n \in 0..MaxQueryLen}

\* DataGenerationRequest bodies: each count zero or positive
RequestCounts == {0, 1}
GenerationRequests ==
    [customers : RequestCounts, merchants : RequestCounts,
     transactions : RequestCounts]

\* the state of the module after import: snowflake_manager = SnowflakeManager()
GatewayInit ==
    /\ connection = NoConnection
    /\ connection_params = NoParams
    /\ sessions = <<>>
    /\ request = NoRequest
    /\ response = NoResponse
    /\ calls = <<>>
    /\ generated = FALSE
    /\ phase = "serving"

NoDirectCall == [num_customers |-> 0, num_merchants |-> 0, num_transactions |-> 0]
NotCalled == Raise("not called")

\* no table has been loaded and the generator has not run
WarehouseInit ==
    /\ warehouse = [t \in TableNames |-> <<>>]
    /\ batches = 0

Init ==
    /\ GatewayInit
    /\ WarehouseInit
    /\ gen_args = NoDirectCall
    /\ gen_result = NotCalled

Serving == phase = "serving"

Connect ==
    /\ Serving
    /\ \E params \in Credentials, accepted \in BOOLEAN :
          /\ accepted => DriverCanAccept(params) /\ Len(sessions) < MaxSessions
          /\ request' = [op |-> "connect", params |-> params]
          /\ connect_snowflake(params, accepted)
    /\ UNCHANGED <<phase, gen_args, gen_result, warehouse_vars>>

Status ==
    /\ Serving
    /\ request' = [op |-> "status"]
    /\ snowflake_status
    /\ UNCHANGED <<phase, gen_args, gen_result, warehouse_vars>>

Setup ==
    /\ Serving
    /\ \E fail_at \in 0..Len(setup_queries) :
          /\ request' = [op |-> "setup"]
          /\ setup_database(fail_at)
    /\ UNCHANGED <<phase, gen_args, gen_result, warehouse_vars>>

Generate ==
    /\ Serving
    /\ \E req \in GenerationRequests :
          \E rnd \in RandomSource(req.customers, req.merchants, req.transactions),
             fail_at \in 0..Len(LoadOrder) :
              /\ request' = [op |-> "generate", body |-> req]
              /\ generate_data(req, rnd, fail_at)
    /\ UNCHANGED <<phase, gen_args, gen_result, warehouse_vars>>

Execute ==
    /\ Serving
    /\ \E sql_query \in Queries, limit \in Limits, driver_raises \in BOOLEAN :
          /\ request' = [op |-> "execute", sql_query |-> sql_query, limit |-> limit]
          /\ execute_query_endpoint(sql_query, limit, driver_raises)
    /\ UNCHANGED <<phase, gen_args, gen_result, warehouse_vars>>

Dashboard ==
    /\ Serving
    /\ \E fail_at \in 0..Len(dashboard_queries) :
          /\ request' = [op |-> "dashboard"]
          /\ get_dashboard_data(fail_at)
    /\ UNCHANGED <<phase, gen_args, gen_result, warehouse_vars>>

Shutdown ==
    /\ Serving
    /\ request' = [op |-> "shutdown"]
    /\ response' = NoResponse
    /\ shutdown_db_client
    /\ UNCHANGED <<gen_args, gen_result, warehouse_vars>>

Next ==
    \/ Connect
    \/ Status
    \/ Setup
    \/ Generate
    \/ Execute
    \/ Dashboard
    \/ Shutdown

Spec == Init /\ [][Next]_vars

-----------------------------------------------------------------------------
(* Properties of the gateway, checked under Spec *)

Held == connection # NoConnection

\* part occurs in the text
Contains(text, part) == \E i \in 1..Len(text) : text[i] = part

\* the requests that need a session
SessionOps == {"setup", "generate", "execute", "dashboard"}

\* every data frame and load mode load_dataframe is called with
Frames == {<<>>, <<[customer_id |-> uuid4(1, 1)]>>}

\* the gateway methods called on a disconnected gateway, for every argument
\* and whatever the driver would do
DisconnectedMethodsFail ==
    ~Held =>
        /\ \A q \in Queries, fetch_results \in BOOLEAN, driver_raises \in BOOLEAN :
              /\ execute_query(connection, q, fetch_results, driver_raises).outcome
                    = HTTPException(400, <<NoActiveConnection>>)
              /\ execute_query(connection, q, fetch_results, driver_raises).calls = <<>>
        /\ \A df \in Frames, t \in TableNames, if_exists \in {"append", "replace"},
              driver_raises \in BOOLEAN :
              /\ load_dataframe(connection, df, t, if_exists, driver_raises).outcome
                    = HTTPException(400, <<NoActiveConnection>>)
              /\ load_dataframe(connection, df, t, if_exists, driver_raises).calls = <<>>

\* a request that needs a session, handled by a disconnected gateway
DisconnectedRequestFails ==
    (~Held /\ request'.op \in SessionOps) =>
        /\ response'.status_code = 400
        /\ Contains(response'.detail, NoActiveConnection)
        /\ calls' = <<>>
        /\ generated' = FALSE
        /\ connection' = NoConnection
        /\ sessions' = sessions

\* C1: while the gateway holds no session, execute_query, load_dataframe and
\* the setup, generate, execute and dashboard requests fail with a 400 whose
\* detail contains 'No active Snowflake connection', whatever the request
\* holds, without a driver call, without generating data and without a
\* reconnect, and the gateway holds no session afterwards.
C1_DisconnectedFailsFast ==
    [](DisconnectedMethodsFail) /\ [][DisconnectedRequestFails]_vars

\* a generate request refused by a gateway that a rejected connect left
\* disconnected
C1_Witness ==
    /\ ~Held
    /\ connection_params # NoParams
    /\ request.op = "generate"
    /\ request.body.customers = 1
    /\ response.status_code = 400

\* C2: GET /snowflake/status never fails: it answers 200 with 'connected'
\* exactly when the gateway holds a session and 'disconnected' otherwise, and
\* whenever a session is held the stored connection parameters are present.
C2_StatusNeverFails ==
    /\ Held => ParamsDatabase(connection_params).raised = None
    /\ request.op = "status" =>
          /\ response.status_code = 200
          /\ response.body.status = IF Held THEN "connected" ELSE "disconnected"

\* status answered 'connected' after the session was replaced once
C2_Witness ==
    /\ request.op = "status"
    /\ response.status_code = 200
    /\ response.body.status = "connected"
    /\ Len(sessions) = 2

\* the driver calls of the last request that act on a session
SessionCalls == {i \in 1..Len(calls) : calls[i].fn \in {"execute", "write_pandas"}}

\* C3: the gateway holds at most one session, the one opened by the most
\* recent successful connect, and every execute and bulk-load is forwarded to
\* that session.
C3_HoldsLatestSession ==
    /\ Held <=> Len(sessions) > 0
    /\ Held => connection = Len(sessions)
    /\ \A i \in SessionCalls : Held /\ calls[i].session = Len(sessions)

\* a load forwarded to the second session, which replaced the first
C3_Witness ==
    /\ Len(sessions) = 2
    /\ connection = 2
    /\ request.op = "generate"
    /\ Len(calls) = 4
    /\ calls[4].session = 2

\* a connect request that the driver accepts
ConnectAccepted == Connect /\ response'.status_code = 200

\* a connect request that the driver rejected
ConnectRejected == request.op = "connect" /\ calls[1].raised

\* C4: a connect request that the driver rejects is answered 400 and leaves
\* the connection as it was (none stays none, a held session stays held),
\* and the gateway can be connected afterwards.
C4_RejectedConnectKeepsState ==
    /\ [][ConnectRejected' =>
            /\ response'.status_code = 400
            /\ connection' = connection
            /\ sessions' = sessions]_vars
    /\ []((ConnectRejected /\ Len(sessions) < MaxSessions) => ENABLED ConnectAccepted)

\* a connect rejected while the gateway held a session, which it still holds
C4_Witness ==
    /\ ConnectRejected
    /\ response.status_code = 400
    /\ Held
    /\ sessions[connection].open
    /\ connection_params.database # sessions[connection].database

\* the last request ended on a driver call that raised
DriverRaised ==
    /\ request.op \in SessionOps
    /\ Len(calls) > 0
    /\ calls[Len(calls)].raised

\* the gateway methods on a connected gateway when the driver raises: one
\* driver call and a 400; when it does not raise, the call goes to the session
ConnectedMethodsSurface ==
    Held =>
        /\ \A q \in Queries, fetch_results \in BOOLEAN :
              /\ execute_query(connection, q, fetch_results, TRUE).outcome.raised
                    = "HTTPException"
              /\ execute_query(connection, q, fetch_results, TRUE).outcome.status_code = 400
              /\ Len(execute_query(connection, q, fetch_results, TRUE).calls) = 1
              /\ Len(execute_query(connection, q, fetch_results, FALSE).calls) = 1
              /\ execute_query(connection, q, fetch_results, FALSE).calls[1].session
                    = connection
        /\ \A df \in Frames, t \in TableNames, if_exists \in {"append", "replace"} :
              /\ load_dataframe(connection, df, t, if_exists, TRUE).outcome.raised
                    = "HTTPException"
              /\ load_dataframe(connection, df, t, if_exists, TRUE).outcome.status_code = 400
              /\ Len(load_dataframe(connection, df, t, if_exists, TRUE).calls) = 1

\* C5: when the driver raises during execute_query or load_dataframe on a
\* connected gateway, the caller gets a 400, the failed call was made once and
\* nothing was called after it, and the gateway still holds the same session,
\* to which a later execute is forwarded.
C5_DriverFailureSurfacedOnce ==
    /\ [](ConnectedMethodsSurface)
    /\ [][DriverRaised' =>
            /\ response'.status_code = 400
            /\ \A i \in 1..Len(calls') : calls'[i].raised => i = Len(calls')
            /\ \A i, j \in 1..Len(calls') : calls'[i] = calls'[j] => i = j
            /\ Held
            /\ connection' = connection
            /\ sessions' = sessions]_vars

\* a generate request whose third load, of accounts, raised
C5_Witness ==
    /\ DriverRaised
    /\ request.op = "generate"
    /\ Len(calls) = 3
    /\ calls[3].table_name = "accounts"
    /\ response.status_code = 400
    /\ Held

\* C6: the gateway starts disconnected, becomes connected only by a
\* successful connect, is disconnected once the shutdown handler has run, and
\* changes its state on no other operation.
C6_TwoStateMachine ==
    [][/\ (~Held /\ Held') => ConnectAccepted
       /\ (Held /\ ~Held') => request'.op = "shutdown"
       /\ phase' = "stopped" => ~Held']_vars

-----------------------------------------------------------------------------
(* A direct call of the generator, its arguments drawn from bounded sets *)

GenCounts(max) == -1..max

GenInit ==
    /\ GatewayInit
    /\ gen_args \in [num_customers : GenCounts(MaxCustomers),
                     num_merchants : GenCounts(MaxMerchants),
                     num_transactions : GenCounts(MaxTransactions)]
    /\ gen_result = NotCalled
    /\ WarehouseInit

CallGenerate ==
    /\ gen_result = NotCalled
    /\ \E rnd \in RandomSource(gen_args.num_customers, gen_args.num_merchants,
                               gen_args.num_transactions) :
          gen_result' = generate_sample_data(gen_args.num_customers,
                            gen_args.num_merchants, gen_args.num_transactions,
                            1, rnd)
    /\ UNCHANGED <<gateway_vars, gen_args, warehouse_vars>>

GenNext == CallGenerate

SpecGen == GenInit /\ [][GenNext]_vars

-----------------------------------------------------------------------------
(* Properties of generate_sample_data, checked under SpecGen *)

Returned == gen_result.raised = None
Dataset == gen_result.value

CustomerIds == {Dataset.customers[i].customer_id : i \in 1..Len(Dataset.customers)}
MerchantIds == {Dataset.merchants[i].merchant_id : i \in 1..Len(Dataset.merchants)}

\* the transaction's account is an account of the transaction's customer
OwnAccountOf(txn) ==
    \E i \in 1..Len(Dataset.accounts) :
        /\ Dataset.accounts[i].account_id = txn.account_id
        /\ Dataset.accounts[i].customer_id = txn.customer_id

\* the else branch, accounts[0], was taken for this transaction: its
\* customer has no account in the accounts collection
FallbackTaken(txn) ==
    Len(OwnAccounts(Dataset.accounts, [customer_id |-> txn.customer_id])) = 0

\* C7: in every returned dataset each transaction's account_id is the id of an
\* account owned by the transaction's customer_id, its customer_id and
\* merchant_id are ids of a customer and a merchant of the batch, and the
\* accounts[0] fallback is never taken.
C7_TransactionAccountBelongsToCustomer ==
    Returned =>
        \A i \in 1..Len(Dataset.transactions) :
            /\ OwnAccountOf(Dataset.transactions[i])
            /\ Dataset.transactions[i].customer_id \in CustomerIds
            /\ Dataset.transactions[i].merchant_id \in MerchantIds
            /\ ~FallbackTaken(Dataset.transactions[i])

\* two transactions of different customers, the second one on an account that
\* is not its customer's first
C7_Witness ==
    /\ Returned
    /\ Len(Dataset.transactions) = 2
    /\ Dataset.transactions[1].customer_id # Dataset.transactions[2].customer_id
    /\ Len(OwnAccounts(Dataset.accounts,
                       [customer_id |-> Dataset.transactions[2].customer_id])) > 1
    /\ OwnAccounts(Dataset.accounts,
                   [customer_id |-> Dataset.transactions[2].customer_id])[1].account_id
          # Dataset.transactions[2].account_id

\* position of the customer that owns account i
OwnerIndex(i) ==
    CHOOSE c \in 1..Len(Dataset.customers) :
        Dataset.customers[c].customer_id = Dataset.accounts[i].customer_id

\* C8: in every returned dataset each account's customer_id is the id of a
\* customer of the batch, the accounts come in the order of the customers they
\* were generated for, and every customer owns between one and three accounts.
C8_AccountBelongsToItsCustomer ==
    Returned =>
        /\ \A i \in 1..Len(Dataset.accounts) :
              Dataset.accounts[i].customer_id \in CustomerIds
        /\ \A i, j \in 1..Len(Dataset.accounts) :
              i < j => OwnerIndex(i) <= OwnerIndex(j)
        /\ \A c \in 1..Len(Dataset.customers) :
              /\ Len(OwnAccounts(Dataset.accounts, Dataset.customers[c])) >= 1
              /\ Len(OwnAccounts(Dataset.accounts, Dataset.customers[c])) <= 3

\* two customers, one with a single account and one with three
C8_Witness ==
    /\ Returned
    /\ Len(Dataset.customers) = 2
    /\ Len(OwnAccounts(Dataset.accounts, Dataset.customers[1])) = 3
    /\ Len(OwnAccounts(Dataset.accounts, Dataset.customers[2])) = 1

Called == gen_result # NotCalled

\* C9: for positive counts c, m, t the call returns exactly c customers,
\* m merchants and t transactions, and between c and 3*c accounts.
C9_CountsOfPositiveRequest ==
    (/\ Called
     /\ gen_args.num_customers > 0
     /\ gen_args.num_merchants > 0
     /\ gen_args.num_transactions > 0) =>
        /\ Returned
        /\ Len(Dataset.customers) = gen_args.num_customers
        /\ Len(Dataset.merchants) = gen_args.num_merchants
        /\ Len(Dataset.transactions) = gen_args.num_transactions
        /\ Len(Dataset.accounts) >= gen_args.num_customers
        /\ Len(Dataset.accounts) <= 3 * gen_args.num_customers

\* the largest request of the bounds, answered with the most accounts
C9_Witness ==
    /\ Called
    /\ gen_args.num_customers = MaxCustomers
    /\ gen_args.num_merchants = MaxMerchants
    /\ gen_args.num_transactions = MaxTransactions
    /\ Returned
    /\ Len(Dataset.accounts) = 3 * MaxCustomers

\* C10: with customerCount = 0 or merchantCount = 0 the generator either
\* returns a dataset whose accounts and transactions are empty or fails with
\* a ValidationError; it raises no other error.
C10_ZeroCountsShortCircuit ==
    (/\ Called
     /\ (gen_args.num_customers = 0 \/ gen_args.num_merchants = 0)) =>
        \/ gen_result.raised = "ValidationError"
        \/ /\ Returned
           /\ Len(Dataset.accounts) = 0
           /\ Len(Dataset.transactions) = 0

\* one of the three counts is zero or negative
NonPositiveCount ==
    \/ gen_args.num_customers <= 0
    \/ gen_args.num_merchants <= 0
    \/ gen_args.num_transactions <= 0

\* C11: the generator fails only on invalid counts and fails fast on them:
\* whenever one of the three counts is zero or negative the call fails with a
\* ValidationError and produces no record, and whenever all three counts are
\* positive the call does not fail.
C11_FailsOnlyOnInvalidCounts ==
    Called =>
        IF NonPositiveCount
        THEN gen_result.raised = "ValidationError"
        ELSE Returned

-----------------------------------------------------------------------------
(* Properties of the query path, checked under Spec *)

\* the execute calls the last request made
ExecuteCalls == {i \in 1..Len(calls) : calls[i].fn = "execute"}

\* the gateway method hands its query argument to cursor.execute unchanged
GatewayForwardsVerbatim ==
    Held =>
        \A q \in Queries, fetch_results \in BOOLEAN, driver_raises \in BOOLEAN :
            /\ Len(execute_query(connection, q, fetch_results, driver_raises).calls) = 1
            /\ execute_query(connection, q, fetch_results, driver_raises).calls[1].query = q

\* s is text without the white space around it
IsStripped(s, text) ==
    /\ \E i \in 1..Len(text) + 1, j \in 0..Len(text) :
          /\ s = SubSeq(text, i, j)
          /\ \A k \in 1..Len(text) : (k < i \/ k > j) => text[k] = " "
    /\ Len(s) > 0 => s[1] # " " /\ s[Len(s)] # " "

\* the text has a LIMIT clause, in either spelling
HasLimitClause(text) == \E i \in 1..Len(text) : text[i] \in {"limit 5", "LIMIT 5"}

\* what the endpoint sent for the request: the stripped text, with a LIMIT
\* clause appended when the request has a non-zero limit and the text has none
EndpointForwardsLimited ==
    (request.op = "execute" /\ Held) =>
        /\ Len(calls) = 1
        /\ calls[1].fn = "execute"
        /\ LET appended == /\ request.limit # NoLimit
                           /\ request.limit[1] # 0
                           /\ ~HasLimitClause(request.sql_query)
               sent == calls[1].query
           IN IF appended
              THEN /\ Len(sent) >= 2
                   /\ IsStripped(SubSeq(sent, 1, Len(sent) - 2), request.sql_query)
                   /\ sent[Len(sent) - 1] = " LIMIT "
                   /\ sent[Len(sent)] = request.limit[1]
              ELSE IsStripped(sent, request.sql_query)

\* C13 (amended): the gateway's execute_query hands its query to the driver
\* verbatim; POST /query/execute hands over the caller's text with the white
\* space around it removed and, when the request's limit is a non-zero number
\* and the text holds no LIMIT in any case, with " LIMIT <limit>" appended.
C13_ForwardsStrippedAndLimited ==
    /\ GatewayForwardsVerbatim
    /\ EndpointForwardsLimited

\* a padded query without a LIMIT clause, sent stripped and with the limit
\* of the request appended
C13_Witness ==
    /\ request.op = "execute"
    /\ Held
    /\ request.sql_query = <<" ", "SELECT 1">>
    /\ request.limit = <<10>>
    /\ Len(calls) = 1
    /\ Len(calls[1].query) = 3
    /\ calls[1].query[1] = "SELECT 1"
    /\ calls[1].query[3] = 10

\* C13: an execute request forwards the caller's SQL string verbatim: for
\* every query and every limit, on the gateway's execute_query and on POST
\* /query/execute, the string handed to the driver is the string supplied.
C13_ForwardsVerbatim ==
    /\ GatewayForwardsVerbatim
    /\ \A i \in ExecuteCalls :
          request.op = "execute" =>
              /\ Len(calls[i].query) = Len(request.sql_query)
              /\ \A k \in 1..Len(request.sql_query) :
                    calls[i].query[k] = request.sql_query[k]

-----------------------------------------------------------------------------
(* The warehouse behind the session: generate requests followed together     *)
(* with the tables their loads write                                         *)

\* the driver's write_pandas on the tables: a call that raises leaves its
\* table as it was, 'replace' swaps the table's rows for the frame's, and
\* 'append' adds the frame's rows
write_pandas(tables, call) ==
    IF call.raised THEN tables
    ELSE IF call.if_exists = "replace"
    THEN [tables EXCEPT ![call.table_name] = call.df]
    ELSE [tables EXCEPT ![call.table_name] = @ \o call.df]

\* the tables after the driver calls cs[i], cs[i + 1], ... in this order
RECURSIVE Written(_, _, _)
Written(tables, cs, i) ==
    IF i > Len(cs) THEN tables
    ELSE Written(IF cs[i].fn = "write_pandas" THEN write_pandas(tables, cs[i])
                 ELSE tables,
                 cs, i + 1)

\* POST /data/generate, with the effect of its loads on the warehouse; every
\* run of the generator issues uuids of its own
GenerateAndLoad ==
    /\ Serving
    /\ batches < MaxBatches
    /\ \E req \in GenerationRequests :
          \E rnd \in RandomSource(req.customers, req.merchants, req.transactions),
             fail_at \in 0..Len(LoadOrder) :
              /\ request' = [op |-> "generate", body |-> req]
              /\ generate_data(req, rnd, fail_at)
    /\ batches' = IF generated' THEN batches + 1 ELSE batches
    /\ warehouse' = Written(warehouse, calls', 1)
    /\ UNCHANGED <<phase, gen_args, gen_result>>

LoadNext ==
    \/ Connect
    \/ GenerateAndLoad

SpecLoad == Init /\ [][LoadNext]_vars

-----------------------------------------------------------------------------
(* Properties of the warehouse, checked under SpecLoad *)

PrimaryKey ==
    [customers |-> "customer_id", merchants |-> "merchant_id",
     accounts |-> "account_id", transactions |-> "transaction_id"]

\* the ids stored in table t
StoredIds(t) == {warehouse[t][i][PrimaryKey[t]] : i \in 1..Len(warehouse[t])}

\* the generator runs whose rows table t holds
StoredBatches(t) == {id[1] : id \in StoredIds(t)}

\* C12: after any sequence of generate requests, loads that failed part-way
\* included, the customers, merchants, accounts and transactions tables hold
\* the rows of one and the same generated batch, so every stored account and
\* transaction references a stored customer, merchant and account.
C12_TablesHoldOneBatch ==
    /\ Cardinality(UNION {StoredBatches(t) : t \in TableNames}) <= 1
    /\ \A i \in 1..Len(warehouse.accounts) :
          warehouse.accounts[i].customer_id \in StoredIds("customers")
    /\ \A i \in 1..Len(warehouse.transactions) :
          /\ warehouse.transactions[i].customer_id \in StoredIds("customers")
          /\ warehouse.transactions[i].merchant_id \in StoredIds("merchants")
          /\ warehouse.transactions[i].account_id \in StoredIds("accounts")

-----------------------------------------------------------------------------
(* Properties of the schema setup, checked under Spec *)

\* the stage a DDL statement belongs to: 1 database, 2 schema, 3 table, 4 view
DDLStage(stmt) ==
    CASE stmt[1] \in {"CREATE DATABASE IF NOT EXISTS FINANCIAL_DW",
                      "USE DATABASE FINANCIAL_DW"} -> 1
      [] stmt[1] \in {"CREATE SCHEMA IF NOT EXISTS PUBLIC", "USE SCHEMA PUBLIC"} -> 2
      [] stmt[1] \in {"CREATE OR REPLACE TABLE customers",
                      "CREATE OR REPLACE TABLE merchants",
                      "CREATE OR REPLACE TABLE accounts",
                      "CREATE OR REPLACE TABLE transactions"} -> 3
      [] stmt[1] \in {"CREATE OR REPLACE VIEW daily_transaction_summary",
                      "CREATE OR REPLACE VIEW customer_spending_summary"} -> 4
      [] OTHER -> 0

\* the statements of the last request that the driver executed without raising
Executed(stage) ==
    {i \in 1..Len(calls) : ~calls[i].raised /\ DDLStage(calls[i].query) = stage}

\* the statements of a stage that the last request sent, executed or rejected
Sent(stage) == {i \in 1..Len(calls) : DDLStage(calls[i].query) = stage}

\* the last request was a setup request on a connected gateway
SetupRan == request.op = "setup" /\ Held

\* C14: POST /snowflake/setup on a connected gateway sends its DDL statements
\* to the session one at a time in the listed order (database, schema, the
\* four tables, the two views); it answers 200 with tables_created = 4 and
\* views_created = 2 only if every statement was executed, and on the first
\* statement the driver rejects it sends none of the remaining ones and
\* answers 400, the statements before it having been executed and none undone.
C14_SetupStopsAtFirstRejection ==
    SetupRan =>
        /\ \A i \in 1..Len(calls) :
              /\ calls[i].fn = "execute"
              /\ calls[i].session = connection
              /\ DDLStage(calls[i].query) \in 1..4
              /\ calls[i].raised => i = Len(calls)
        /\ \A i, j \in 1..Len(calls) :
              /\ i < j => DDLStage(calls[i].query) <= DDLStage(calls[j].query)
              /\ i # j => calls[i].query # calls[j].query
        /\ \A stage \in 2..4 :
              Sent(stage) # {} =>
                  Cardinality(Executed(stage - 1)) = IF stage = 4 THEN 4 ELSE 2
        /\ response.status_code \in {200, 400}
        /\ response.status_code = 200 =>
              /\ \A i \in 1..Len(calls) : ~calls[i].raised
              /\ Cardinality(Executed(1)) = 2
              /\ Cardinality(Executed(2)) = 2
              /\ Cardinality(Executed(3)) = 4
              /\ Cardinality(Executed(4)) = 2
              /\ response.body.tables_created = Cardinality(Executed(3))
              /\ response.body.views_created = Cardinality(Executed(4))
        /\ response.status_code = 400 =>
              /\ Len(calls) > 0
              /\ calls[Len(calls)].raised
              /\ Contains(response.detail, "Schema creation failed: ")

\* a setup request whose sixth statement, the merchants table, was rejected:
\* five statements executed, none sent after it
C14_Witness ==
    /\ SetupRan
    /\ Len(calls) = 6
    /\ calls[6].raised
    /\ calls[6].query = <<"CREATE OR REPLACE TABLE merchants">>
    /\ Cardinality(Executed(3)) = 1
    /\ response.status_code = 400

-----------------------------------------------------------------------------
(* Properties of the status report and of the sessions, checked under Spec *)

\* C15: whenever GET /snowflake/status answers 'connected', the database it
\* reports is the database of the credentials with which the session the
\* gateway holds was opened, also after a connect that the driver rejected
\* while the gateway was connected.
C15_StatusReportsSessionDatabase ==
    (/\ request.op = "status"
     /\ response.status_code = 200
     /\ response.body.status = "connected") =>
        response.body.database = sessions[connection].database

\* C16: every session opened by a successful connect is closed in the end: a
\* session replaced by a later successful connect is closed no later than the
\* shutdown, so once the shutdown handler has run no session that the
\* gateway opened is still open.
C16_NoSessionOpenAfterShutdown ==
    phase = "stopped" => \A i \in 1..Len(sessions) : ~sessions[i].open

====
